---- MODULE Spec2Model ----
(***************************************************************************)
(* A model of the meta-http outbound client (package metahttp):            *)
(*   - retryRoundTripper.RoundTrip wrapping loggingRoundTripper.RoundTrip  *)
(*     wrapping the pooled http.Transport        (specification Spec,      *)
(*     and SpecLive with a fair scheduler)                                 *)
(*   - utils.FetchContextFromHeaders and utils.FetchHeadersFromContext     *)
(*                                               (specification SpecBridge)*)
(*   - client.SetDefaultHeaders, Get, Post, Put, GetConfig and sendRequest *)
(*                                               (specification SpecClient)*)
(*   - generateUrl                               (specification SpecUrl)   *)
(*   - loggingRoundTripper.RoundTrip over any inner transport              *)
(*                                               (specification SpecLogging)*)
(*   - sendRequest over the retryRoundTripper    (specification SpecCall)  *)
(***************************************************************************)
EXTENDS Integers, Sequences, FiniteSets, TLC

(***************************************************************************)
(* Bounds of the model.                                                    *)
(***************************************************************************)
\* largest positive retry.MaxRetries the model configures
MaxRetriesBound == 3
\* largest retry.DelayBetweenRetry, in clock ticks
MaxDelay == 2
\* attempts after which a loop that has no reachable bound is cut off
MaxAttempts == 4
\* longest serialized request body, in bytes
MaxBody == 2
\* most bindings a context given to the library holds
MaxCtxDepth == 2
\* most header lines an inbound request carries
MaxLines == 2
\* most bindings a context given to Get, Post or Put holds
MaxCallDepth == 1
\* most blocks of a response body the decoder's reads take
MaxRead == 2
\* longest base path and relative path given to generateUrl, in characters
MaxUrlLen == 3

(***************************************************************************)
(* Values.                                                                 *)
(***************************************************************************)
\* status codes the server answers with
Codes == {200, 500}

\* a nil *http.Response
NoResp == [status |-> 0, n |-> 0]

\* the response the transport produces on attempt n with status s
Resp(s, n) == [status |-> s, n |-> n]

\* error values: nil, a network failure, the error of the request's context
NilErr == "nil"
NetErr == "net"
CtxErr == "ctx"

\* request methods of Get, Post and Put
Methods == {"GET", "POST", "PUT"}

\* json.Marshal(v) of Post and Put: never empty ("null" at the least)
PostBodies == UNION {[1..n -> {"b"}] : n \in 1..MaxBody}

VARIABLES
    maxRetries,   \* retryRoundTripper.maxRetries
    delay,        \* retryRoundTripper.delay
    validator,    \* retryRoundTripper.validator, as the set of codes it accepts
    method,       \* r.Method
    postBody,     \* the bytes behind r.Body (<<>> for Get: no body)
    bodyOff,      \* read offset of the bytes.Buffer behind r.Body
    ctxDone,      \* r.Context().Done() is closed
    pc,           \* position of RoundTrip
    attempts,     \* local attempts of retryRoundTripper.RoundTrip
    res,          \* local res
    err,          \* local err
    timer,        \* ticks left on the time.After(rrt.delay) timer
    chosen,       \* the case the select statement has committed to
    dispatchDone, \* the context was already done when the attempt was dispatched
    log,          \* records the logger received
    bodySeen,     \* per attempt: the bytes of r.Body still readable at dispatch
    waits,        \* number of delays that elapsed in the select
    validatorCalls, \* number of calls of rrt.validator
    openBodies,   \* attempts whose response has a Body nobody has closed
    ctxIn,        \* the context passed to the bridge
    ctx,          \* the context a bridge operation works on and returns
    inHeader,     \* r.Header of the inbound request
    ctxHeaders,   \* the mapping FetchHeadersFromContext returned
    ops,          \* the bridge operations applied so far
    defaultHeaders, \* client.defaultHeaders
    cpc,          \* position of the client: idle, built, inflight, returned
    reqMethod,    \* the method of the call in progress
    reqCtx,       \* parameter ctx of the call
    callHeaders,  \* parameter headers of the call
    reqHeader,    \* req.Header
    resp,         \* res of sendRequest
    retData,      \* the *models.ResponseData the call returned
    retErr,       \* the error the call returned
    out,          \* the destination the caller passed as v / res
    BaseURL,      \* client.BaseURL
    Timeout,      \* client.HTTPClient.Timeout
    reqURL,       \* local ul of Get, Post and Put
    sent,         \* the call has invoked c.HTTPClient.Do
    config,       \* the RequestOptions GetConfig returned
    lpc,          \* position of loggingRoundTripper.RoundTrip
    lmethod,      \* r.Method of the request given to the logging decorator
    innerRes,     \* res of l.next.RoundTrip(r)
    innerErr,     \* err of l.next.RoundTrip(r)
    sendRes,      \* the response loggingRoundTripper.RoundTrip returned
    sendErr,      \* the error loggingRoundTripper.RoundTrip returned
    records,      \* records the logger received from the decorator
    basePath,     \* parameter basePath of generateUrl
    relativePath, \* parameter relativePath of generateUrl
    ul,           \* the string generateUrl returned
    upc           \* position of generateUrl: called, returned

retryVars == <<maxRetries, delay, validator, method, postBody, bodyOff, ctxDone,
               pc, attempts, res, err, timer, chosen, dispatchDone, log,
               bodySeen, waits, validatorCalls, openBodies>>

bridgeVars == <<ctxIn, ctx, inHeader, ctxHeaders, ops>>

clientVars == <<defaultHeaders, cpc, reqMethod, reqCtx, callHeaders,
                reqHeader, resp, retData, retErr, out, BaseURL, Timeout,
                reqURL, sent, config>>

loggingVars == <<lpc, lmethod, innerRes, innerErr, sendRes, sendErr, records>>

urlVars == <<basePath, relativePath, ul, upc>>

vars == <<retryVars, bridgeVars, clientVars, loggingVars, urlVars>>

\* what the retry loop, the bridge and the client each leave alone
nonRetryVars == <<bridgeVars, clientVars, loggingVars, urlVars>>
nonBridgeVars == <<retryVars, clientVars, loggingVars, urlVars>>
nonClientVars == <<retryVars, bridgeVars, loggingVars, urlVars>>
nonLoggingVars == <<retryVars, bridgeVars, clientVars, urlVars>>
nonUrlVars == <<retryVars, bridgeVars, clientVars, loggingVars>>

\* return sites of retryRoundTripper.RoundTrip:
\*   "Exhausted" line 294, "Accepted" line 298, "Cancelled" line 303
Terminal == {"Exhausted", "Accepted", "Cancelled"}

(***************************************************************************)
(* NewClientWithRetry followed by the construction of one request.         *)
(***************************************************************************)
RetryInit ==
    /\ maxRetries \in (-1)..MaxRetriesBound
    /\ delay \in 0..MaxDelay
    /\ validator \in SUBSET Codes
    /\ method \in Methods
    /\ postBody \in (IF method = "GET" THEN {<<>>} ELSE PostBodies)
    /\ bodyOff = 0
    /\ ctxDone = FALSE
    /\ pc = "top"
    /\ attempts = 0
    /\ res = NoResp
    /\ err = NilErr
    /\ timer = 0
    /\ chosen = "none"
    /\ dispatchDone = FALSE
    /\ log = <<>>
    /\ bodySeen = <<>>
    /\ waits = 0
    /\ validatorCalls = 0
    /\ openBodies = {}

(***************************************************************************)
(* loggingRoundTripper.RoundTrip                                           *)
(***************************************************************************)
\* the "Initiating call" record
LogStart == [msg |-> "Initiating call", status |-> 0, error |-> NilErr]

\* the "Call Ended" record: the error on the failure path, else the status
LogEnd(r, e) ==
    IF e # NilErr
    THEN [msg |-> "Call Ended", status |-> 0, error |-> e]
    ELSE [msg |-> "Call Ended", status |-> r.status, error |-> NilErr]

\* what loggingRoundTripper.RoundTrip returns for the inner outcome (r, e)
LoggingReturn(r, e) == IF e # NilErr THEN <<NoResp, e>> ELSE <<r, e>>

\* the bytes of r.Body a reader still gets
Readable == SubSeq(postBody, bodyOff + 1, Len(postBody))

\* an attempt that is sent without a start record
DispatchUnlogged ==
    /\ pc = "top"
    /\ attempts < MaxAttempts
    /\ pc' = "inflight"
    /\ bodySeen' = Append(bodySeen, Readable)
    /\ dispatchDone' = ctxDone
    /\ UNCHANGED <<openBodies, maxRetries, delay, validator, method, postBody,
                   bodyOff, ctxDone, attempts, res, err, timer, chosen, waits,
                   validatorCalls, log>>
    /\ UNCHANGED nonRetryVars

\* rrt.next.RoundTrip(r) is entered: the start record is logged and the
\* request is handed to the transport
Dispatch ==
    /\ pc = "top"
    /\ attempts < MaxAttempts
    /\ pc' = "inflight"
    /\ log' = Append(log, LogStart)
    /\ bodySeen' = Append(bodySeen, Readable)
    /\ dispatchDone' = ctxDone
    /\ UNCHANGED <<openBodies, maxRetries, delay, validator, method, postBody,
                   bodyOff,
                   ctxDone, attempts, res, err, timer, chosen, waits,
                   validatorCalls>>
    /\ UNCHANGED nonRetryVars

(***************************************************************************)
(* http.Transport.RoundTrip: one send of the request.                      *)
(***************************************************************************)
\* The outcomes one send can have: <<response, error, bytes of the body read>>.
\* A request whose context is done before the send, or whose body no longer
\* holds the ContentLength bytes announced, fails; whatever the outcome the
\* transport may have read any part of the body.
TransportOutcomes ==
    LET n == attempts + 1
        reads == 0..(Len(postBody) - bodyOff)
        canAnswer == ~dispatchDone /\ bodyOff = 0
    IN  {<<NoResp, IF dispatchDone THEN CtxErr ELSE NetErr, k>> : k \in reads}
        \cup (IF ctxDone THEN {<<NoResp, CtxErr, k>> : k \in reads} ELSE {})
        \cup (IF canAnswer
              THEN {<<Resp(s, n), NilErr, k>> : s \in Codes, k \in reads}
              ELSE {})

(***************************************************************************)
(* retryRoundTripper.RoundTrip, lines 290-305: the attempt returns, the    *)
(* bound and the validator are checked, the select statement is entered.   *)
(***************************************************************************)
\* the cases of the select that are ready when it is entered
ReadyCases ==
    (IF ctxDone THEN {"done"} ELSE {})
    \cup (IF ctxDone /\ delay = 0 THEN {"timer"} ELSE {})

\* a bound check that is off by one
AtBoundEarly(a) == a + 1 = maxRetries

\* a bound check that never fires at the bound
AtBoundLate(a) == a > maxRetries

\* attempts == rrt.maxRetries
AtBound(a) == a = maxRetries

\* a check no outcome passes
SatisfiedNever(r, e) == FALSE

\* a check every response passes
SatisfiedAnyResponse(r, e) == e = NilErr

\* err == nil && rrt.validator(res.StatusCode)
Satisfied(r, e) == e = NilErr /\ r.status \in validator

AttemptReturns ==
    /\ pc = "inflight"
    /\ \E o \in TransportOutcomes :
        LET ret == LoggingReturn(o[1], o[2])
            r == ret[1]
            e == ret[2]
            a == attempts + 1
        IN  /\ log' = Append(log, LogEnd(o[1], o[2]))
            /\ bodyOff' = bodyOff + o[3]
            /\ attempts' = a
            /\ res' = r
            /\ openBodies' =
                  IF r # NoResp THEN openBodies \cup {a} ELSE openBodies
            /\ IF AtBound(a)
               THEN /\ pc' = "Exhausted"
                    /\ err' = e
                    /\ UNCHANGED <<validatorCalls, timer, chosen>>
               ELSE /\ validatorCalls' =
                          IF e = NilErr THEN validatorCalls + 1 ELSE validatorCalls
                    /\ IF Satisfied(r, e)
                       THEN /\ pc' = "Accepted"
                            /\ err' = e
                            /\ UNCHANGED <<timer, chosen>>
                       ELSE /\ pc' = "select"
                            /\ err' = e
                            /\ timer' = delay
                            /\ chosen' \in (IF ReadyCases = {} THEN {"none"}
                                            ELSE ReadyCases)
    /\ UNCHANGED <<maxRetries, delay, validator, method, postBody, ctxDone,
                   dispatchDone, bodySeen, waits>>
    /\ UNCHANGED nonRetryVars

\* time passes while the select is blocked
Tick ==
    /\ pc = "select"
    /\ chosen = "none"
    /\ timer > 0
    /\ timer' = timer - 1
    /\ UNCHANGED <<openBodies, maxRetries, delay, validator, method, postBody,
                   bodyOff,
                   ctxDone, pc, attempts, res, err, chosen, dispatchDone, log,
                   bodySeen, waits, validatorCalls>>
    /\ UNCHANGED nonRetryVars

\* the timer of time.After fires and wakes the blocked select
TimerFires ==
    /\ pc = "select"
    /\ chosen = "none"
    /\ timer = 0
    /\ chosen' = "timer"
    /\ UNCHANGED <<openBodies, maxRetries, delay, validator, method, postBody,
                   bodyOff,
                   ctxDone, pc, attempts, res, err, timer, dispatchDone, log,
                   bodySeen, waits, validatorCalls>>
    /\ UNCHANGED nonRetryVars

\* the caller cancels the context, or its deadline expires; a select that
\* is blocked is woken on the Done case
Cancel ==
    /\ ~ctxDone
    /\ pc \notin Terminal
    /\ ctxDone' = TRUE
    /\ chosen' = IF pc = "select" /\ chosen = "none" THEN "done" ELSE chosen
    /\ UNCHANGED <<openBodies, maxRetries, delay, validator, method, postBody,
                   bodyOff,
                   pc, attempts, res, err, timer, dispatchDone, log, bodySeen,
                   waits, validatorCalls>>
    /\ UNCHANGED nonRetryVars

\* a Done case that returns the attempt's own error
SelectDoneKeepsErr ==
    /\ pc = "select"
    /\ chosen = "done"
    /\ pc' = "Cancelled"
    /\ chosen' = "none"
    /\ UNCHANGED <<openBodies, maxRetries, delay, validator, method, postBody,
                   bodyOff,
                   ctxDone, attempts, res, err, timer, dispatchDone, log,
                   bodySeen, waits, validatorCalls>>
    /\ UNCHANGED nonRetryVars

\* case <-r.Context().Done(): return res, r.Context().Err()
SelectDone ==
    /\ pc = "select"
    /\ chosen = "done"
    /\ pc' = "Cancelled"
    /\ err' = CtxErr
    /\ chosen' = "none"
    /\ UNCHANGED <<openBodies, maxRetries, delay, validator, method, postBody,
                   bodyOff,
                   ctxDone, attempts, res, timer, dispatchDone, log, bodySeen,
                   waits, validatorCalls>>
    /\ UNCHANGED nonRetryVars

\* case <-time.After(rrt.delay): the loop goes round
SelectTimer ==
    /\ pc = "select"
    /\ chosen = "timer"
    /\ pc' = "top"
    /\ chosen' = "none"
    /\ waits' = waits + 1
    /\ UNCHANGED <<openBodies, maxRetries, delay, validator, method, postBody,
                   bodyOff,
                   ctxDone, attempts, res, err, timer, dispatchDone, log,
                   bodySeen, validatorCalls>>
    /\ UNCHANGED nonRetryVars

(***************************************************************************)
(* Header names, http.Header and context.Context.                          *)
(***************************************************************************)
Lowers == <<"a", "b", "c", "d", "e", "f", "g", "h", "i", "j", "k", "l", "m",
            "n", "o", "p", "q", "r", "s", "t", "u", "v", "w", "x", "y", "z">>
Uppers == <<"A", "B", "C", "D", "E", "F", "G", "H", "I", "J", "K", "L", "M",
            "N", "O", "P", "Q", "R", "S", "T", "U", "V", "W", "X", "Y", "Z">>

\* the upper case and the lower case form of each letter
UpperOf ==
    [c \in {Lowers[i] : i \in DOMAIN Lowers} |->
        Uppers[CHOOSE i \in DOMAIN Lowers : Lowers[i] = c]]
LowerOf ==
    [c \in {Uppers[i] : i \in DOMAIN Uppers} |->
        Lowers[CHOOSE i \in DOMAIN Uppers : Uppers[i] = c]]

ToUpper(c) == IF c \in DOMAIN UpperOf THEN UpperOf[c] ELSE c

ToLower(c) == IF c \in DOMAIN LowerOf THEN LowerOf[c] ELSE c

\* http.CanonicalHeaderKey, which Header.Set and Header.Get apply to the name:
\* the first letter and every letter after a hyphen in upper case, the rest
\* in lower case (names are sequences of letters and hyphens)
CanonicalHeaderKey(s) ==
    [i \in 1..Len(s) |->
        IF i = 1 \/ s[i - 1] = "-" THEN ToUpper(s[i]) ELSE ToLower(s[i])]

\* the well-known keys of models.go, as the text of each contextKey
UserID == <<"u", "s", "e", "r", "-", "i", "d">>
TenantID == <<"t", "e", "n", "a", "n", "t", "-", "i", "d">>
RequestID == <<"x", "-", "r", "e", "q", "u", "e", "s", "t", "-", "i", "d">>
MerchantAPIKey == <<"x", "-", "a", "p", "i", "-", "k", "e", "y">>
APIContextKey == <<"a", "p", "i", "k", "e", "y">>
AuthorizationKey ==
    <<"A", "u", "t", "h", "o", "r", "i", "z", "a", "t", "i", "o", "n">>
XForwardedFor ==
    <<"X", "-", "F", "o", "r", "w", "a", "r", "d", "e", "d", "-", "F", "o", "r">>

\* a key list that lacks the key added last
ContextKeysWithoutForwardedFor ==
    <<UserID, TenantID, RequestID, MerchantAPIKey, APIContextKey,
      AuthorizationKey>>

ContextKeys ==
    <<UserID, TenantID, RequestID, MerchantAPIKey, APIContextKey,
      AuthorizationKey, XForwardedFor>>

\* a context key of type models.contextKey, and a plain string used as a key:
\* context.Value compares keys with their types
CtxKey(name) == [type |-> "contextKey", name |-> name]
StringKey(name) == [type |-> "string", name |-> name]

\* values bound in a context: a string, something that is no string, nothing
StrVal(s) == [kind |-> "string", s |-> s]
IntVal == [kind |-> "int", s |-> "7"]
NilVal == [kind |-> "nil", s |-> ""]

\* context.WithValue: a new context layered on ctx
WithValue(c, k, v) == Append(c, [key |-> k, val |-> v])

\* ctx.Value(k): the innermost binding of k
Value(c, k) ==
    LET idx == {i \in 1..Len(c) : c[i].key = k}
    IN  IF idx = {} THEN NilVal
        ELSE c[CHOOSE i \in idx : \A j \in idx : j <= i].val

\* Header.Get: the first value stored under the canonical form of the name
HeaderGet(h, name) ==
    LET c == CanonicalHeaderKey(name)
    IN  IF c \in DOMAIN h /\ Len(h[c]) > 0 THEN h[c][1] ELSE ""

\* Header.Set: the canonical form of the name now holds the one value
HeaderSet(h, name, v) ==
    LET c == CanonicalHeaderKey(name)
    IN  [n \in DOMAIN h \cup {c} |-> IF n = c THEN <<v>> ELSE h[n]]

\* Header.Add, as the server's reader applies it to each header line
HeaderAdd(h, name, v) ==
    LET c == CanonicalHeaderKey(name)
    IN  [n \in DOMAIN h \cup {c} |->
            IF n = c
            THEN (IF c \in DOMAIN h THEN Append(h[c], v) ELSE <<v>>)
            ELSE h[n]]

\* an http.Header without entries
EmptyHeader == [n \in {} |-> <<>>]

\* the header of an inbound request whose header lines are `lines`
RECURSIVE ReadHeader(_)
ReadHeader(lines) ==
    IF lines = <<>> THEN EmptyHeader
    ELSE LET n == Len(lines)
         IN  HeaderAdd(ReadHeader(SubSeq(lines, 1, n - 1)),
                       lines[n].name, lines[n].value)

(***************************************************************************)
(* utils.FetchHeadersFromContext and utils.FetchContextFromHeaders         *)
(***************************************************************************)
FetchHeadersFromContext(c) ==
    LET keys == {ContextKeys[i] : i \in DOMAIN ContextKeys}
        ok(key) == Value(c, CtxKey(key)).kind = "string"
    IN  [k \in {key \in keys : ok(key)} |-> Value(c, CtxKey(k)).s]

\* an injection that binds the values under plain string keys
FetchContextFromHeadersStringKeys(c, h) ==
    LET all == [i \in DOMAIN ContextKeys |->
                   [key |-> StringKey(ContextKeys[i]),
                    val |-> StrVal(HeaderGet(h, ContextKeys[i]))]]
    IN  c \o SelectSeq(all, LAMBDA b : b.val.s # "")

\* for each key in the order of ContextKeys: a binding on top of ctx when
\* the header value is not empty
FetchContextFromHeaders(c, h) ==
    LET all == [i \in DOMAIN ContextKeys |->
                   [key |-> CtxKey(ContextKeys[i]),
                    val |-> StrVal(HeaderGet(h, ContextKeys[i]))]]
    IN  c \o SelectSeq(all, LAMBDA b : b.val.s # "")

\* contexts a caller hands to the library
BindingKeys == {CtxKey(UserID), CtxKey(XForwardedFor), StringKey(UserID)}
BindingVals == {StrVal("v"), StrVal(""), IntVal}
Bindings == [key : BindingKeys, val : BindingVals]
Contexts == UNION {[1..n -> Bindings] : n \in 0..MaxCtxDepth}

\* header lines of inbound requests
Other == <<"t", "r", "a", "c", "e">>
LineNames == {UserID, XForwardedFor, Other}
LineValues == {"a", "b", ""}
Lines == [name : LineNames, value : LineValues]
InboundHeaders == {ReadHeader(w) : w \in UNION {[1..n -> Lines] : n \in 0..MaxLines}}

\* the state of the retry loop while the bridge is exercised
RetryIdle ==
    /\ maxRetries = 1
    /\ delay = 0
    /\ validator = {}
    /\ method = "GET"
    /\ postBody = <<>>
    /\ bodyOff = 0
    /\ ctxDone = FALSE
    /\ pc = "top"
    /\ attempts = 0
    /\ res = NoResp
    /\ err = NilErr
    /\ timer = 0
    /\ chosen = "none"
    /\ dispatchDone = FALSE
    /\ log = <<>>
    /\ bodySeen = <<>>
    /\ waits = 0
    /\ validatorCalls = 0
    /\ openBodies = {}

\* the state of the bridge while the retry loop is exercised
BridgeIdle ==
    /\ ctxIn = <<>>
    /\ ctx = <<>>
    /\ inHeader = EmptyHeader
    /\ ctxHeaders = EmptyHeader
    /\ ops = <<>>

\* a server handler holds a context and an inbound request
BridgeInit ==
    /\ ctxIn \in Contexts
    /\ ctx = ctxIn
    /\ inHeader \in InboundHeaders
    /\ ctxHeaders = EmptyHeader
    /\ ops = <<>>

\* ctx = utils.FetchContextFromHeaders(ctx, r)
FetchContext ==
    /\ ops = <<>>
    /\ ctx' = FetchContextFromHeaders(ctx, inHeader)
    /\ ops' = Append(ops, "FetchContextFromHeaders")
    /\ UNCHANGED <<ctxIn, inHeader, ctxHeaders>>
    /\ UNCHANGED nonBridgeVars

\* ctxHeaders := utils.FetchHeadersFromContext(ctx)
FetchHeaders ==
    /\ Len(ops) < 2
    /\ \A i \in DOMAIN ops : ops[i] # "FetchHeadersFromContext"
    /\ ctxHeaders' = FetchHeadersFromContext(ctx)
    /\ ops' = Append(ops, "FetchHeadersFromContext")
    /\ UNCHANGED <<ctxIn, ctx, inHeader>>
    /\ UNCHANGED nonBridgeVars

(***************************************************************************)
(* generateUrl and the validation of the URL it returns.  Strings are      *)
(* sequences of characters.                                                *)
(***************************************************************************)
\* all but the last character of s
DropLast(s) == SubSeq(s, 1, Len(s) - 1)

\* a join that keeps the separator of both sides
generateUrlKeepsBoth(base, rel) ==
    IF Len(base) = 0 THEN rel
    ELSE IF base[Len(base)] = "/"
         THEN IF rel = <<>> THEN DropLast(base) ELSE base \o rel
         ELSE IF rel = <<>> THEN base
              ELSE IF rel[1] = "/" THEN base \o rel
              ELSE base \o <<"/">> \o rel

\* generateUrl(basePath, relativePath)
generateUrl(base, rel) ==
    IF Len(base) = 0 THEN rel
    ELSE IF base[Len(base)] = "/"
         THEN IF rel = <<>> THEN DropLast(base)
              ELSE IF rel[1] = "/" THEN DropLast(base) \o rel
              ELSE base \o rel
         ELSE IF rel = <<>> THEN base
              ELSE IF rel[1] = "/" THEN base \o rel
              ELSE base \o <<"/">> \o rel

\* the characters URLs are written with: a letter, the colon, the slash
UrlChars == {"h", ":", "/"}

IsLetter(c) == c \in DOMAIN UpperOf \cup DOMAIN LowerOf

\* the first index of s at or after `from` that holds c, or Len(s) + 1
IndexFrom(s, c, from) ==
    LET at == {i \in from..Len(s) : s[i] = c}
    IN  IF at = {} THEN Len(s) + 1
        ELSE CHOOSE i \in at : \A j \in at : i <= j

\* net/url getScheme: letters up to a colon are the scheme; a colon at the
\* start is an error; any other character before a colon means no scheme
getScheme(u) ==
    LET stops == {i \in 1..Len(u) : ~IsLetter(u[i])}
        i == IF stops = {} THEN 0
             ELSE CHOOSE k \in stops : \A j \in stops : k <= j
    IN  IF i = 0 \/ u[i] # ":"
        THEN [scheme |-> <<>>, rest |-> u, err |-> FALSE]
        ELSE IF i = 1
        THEN [scheme |-> <<>>, rest |-> <<>>, err |-> TRUE]
        ELSE [scheme |-> SubSeq(u, 1, i - 1),
              rest |-> SubSeq(u, i + 1, Len(u)), err |-> FALSE]

\* net/url parseHost for a host without brackets: what follows the last
\* colon has to be a port, and a port is empty or digits
ValidHost(a) ==
    \A i \in 1..Len(a) :
        (a[i] = ":" /\ \A j \in (i + 1)..Len(a) : a[j] # ":") => i = Len(a)

\* url.ParseRequestURI(ul): the error, u.Scheme and u.Host
ParseRequestURI(u) ==
    LET s == getScheme(u)
        bad == [err |-> TRUE, Scheme |-> <<>>, Host |-> <<>>]
    IN  IF u = <<>> \/ s.err THEN bad
        ELSE IF s.rest = <<>> \/ s.rest[1] # "/"
        THEN IF s.scheme # <<>>
             THEN [err |-> FALSE, Scheme |-> s.scheme, Host |-> <<>>]
             ELSE bad
        ELSE IF s.scheme # <<>> /\ Len(s.rest) >= 2 /\ s.rest[2] = "/"
        THEN LET authority ==
                     SubSeq(s.rest, 3, IndexFrom(s.rest, "/", 3) - 1)
             IN  IF ValidHost(authority)
                 THEN [err |-> FALSE, Scheme |-> s.scheme, Host |-> authority]
                 ELSE bad
        ELSE [err |-> FALSE, Scheme |-> s.scheme, Host |-> <<>>]

\* err != nil || u.Host == "" || u.Scheme == "" does not hold
ValidURL(u) ==
    LET p == ParseRequestURI(u)
    IN  ~p.err /\ p.Host # <<>> /\ p.Scheme # <<>>

\* the strings generateUrl is called with
UrlStrings == UNION {[1..n -> UrlChars] : n \in 0..MaxUrlLen}

\* the state of generateUrl while another part is exercised
UrlIdle ==
    /\ basePath = <<>>
    /\ relativePath = <<>>
    /\ ul = <<>>
    /\ upc = "idle"

\* generateUrl is called with a base path and a relative path
UrlInit ==
    /\ basePath \in UrlStrings
    /\ relativePath \in UrlStrings
    /\ ul = <<>>
    /\ upc = "called"

\* generateUrl returns
GenerateUrl ==
    /\ upc = "called"
    /\ ul' = generateUrl(basePath, relativePath)
    /\ upc' = "returned"
    /\ UNCHANGED <<basePath, relativePath>>
    /\ UNCHANGED nonUrlVars

(***************************************************************************)
(* client: SetDefaultHeaders, Get, Post, Put and sendRequest.              *)
(***************************************************************************)
ContentType ==
    <<"C", "o", "n", "t", "e", "n", "t", "-", "T", "y", "p", "e">>
Accept == <<"A", "c", "c", "e", "p", "t">>
JSONUTF8 == "application/json; charset=utf-8"

\* a nil map[string]string, and a map without entries
NoHeaders == [n \in {} |-> ""]

\* the canonical names the keys of a map stand for
CanonNames(m) == {CanonicalHeaderKey(k) : k \in DOMAIN m}

\* for k, v := range m { req.Header.Set(k, v) }: the map is ranged over in
\* an unspecified order, so of the keys with one canonical form the one
\* ranged over last, pick[c], leaves its value
SetAll(h, m, pick) ==
    [n \in DOMAIN h \cup DOMAIN pick |->
        IF n \in DOMAIN pick THEN <<m[pick[n]]>> ELSE h[n]]

\* the orders a range over m can take, as the key that comes last per name
Picks(m) ==
    LET canon == [k \in DOMAIN m |-> CanonicalHeaderKey(k)]
        names == CanonNames(m)
    IN  {p \in [names -> DOMAIN m] : \A c \in names : canon[p[c]] = c}

\* a header assembly that sets the client's default headers last
RequestHeaderDefaultsLast(c, defaults, headers, p1, p2, p3) ==
    LET h1 == SetAll(EmptyHeader, FetchHeadersFromContext(c), p1)
        h2 == HeaderSet(HeaderSet(h1, ContentType, JSONUTF8), Accept, JSONUTF8)
        h3 == SetAll(h2, headers, p3)
    IN  SetAll(h3, defaults, p2)

\* a header assembly that leaves out the headers of the context
RequestHeaderNoContext(c, defaults, headers, p1, p2, p3) ==
    LET h2 == HeaderSet(HeaderSet(EmptyHeader, ContentType, JSONUTF8),
                        Accept, JSONUTF8)
        h3 == SetAll(h2, defaults, p2)
    IN  SetAll(h3, headers, p3)

\* req.Header as Get, Post and Put assemble it: the headers of the context,
\* Content-Type and Accept, the default headers, the headers of the call
RequestHeader(c, defaults, headers, p1, p2, p3) ==
    LET h1 == SetAll(EmptyHeader, FetchHeadersFromContext(c), p1)
        h2 == HeaderSet(HeaderSet(h1, ContentType, JSONUTF8), Accept, JSONUTF8)
        h3 == SetAll(h2, defaults, p2)
    IN  SetAll(h3, headers, p3)

\* header maps callers pass to SetDefaultHeaders and to the calls
UserIDCanonical == CanonicalHeaderKey(UserID)
HeaderNames == {UserID, UserIDCanonical, ContentType}
HeaderValues == {"a", "b"}
HeaderMaps == UNION {[D -> HeaderValues] : D \in SUBSET HeaderNames}

\* JSON values of response bodies: [t]ype, [n]umber, [s]tring
Missing == [t |-> "missing", n |-> 0, s |-> ""]
JNull == [t |-> "null", n |-> 0, s |-> ""]
JNum(n) == [t |-> "number", n |-> n, s |-> ""]
JStr(s) == [t |-> "string", n |-> 0, s |-> s]
JBool(b) == [t |-> "bool", n |-> IF b THEN 1 ELSE 0, s |-> ""]

\* a value of the member "error": an object with code and message, or a scalar
JErr(code, message) ==
    [t |-> "object", n |-> 0, s |-> "", code |-> code, message |-> message]
JErrScalar(x) ==
    [t |-> x.t, n |-> x.n, s |-> x.s, code |-> Missing, message |-> Missing]

\* the first JSON value of a response body: no JSON at all, null, a string,
\* or an object with the members success, error, _ and Goodbye
SuccessVals == {Missing, JBool(TRUE)}
ErrVals ==
    {JErrScalar(Missing), JErrScalar(JStr("internal server error"))}
    \cup {JErr(c, m) : c \in {Missing, JNum(10), JStr("x")},
                       m \in {Missing, JStr("m")}}
UnderscoreVals == {Missing, JNum(7)}
GoodbyeVals == {Missing, JStr("World"), JNum(1)}
\* the decoder found no JSON value
EmptyDoc ==
    [top |-> "invalid", success |-> Missing, error |-> JErrScalar(Missing),
     underscore |-> Missing, goodbye |-> Missing]
Docs ==
    [top : {"object"}, success : SuccessVals, error : ErrVals,
     underscore : UnderscoreVals, goodbye : GoodbyeVals]
    \cup [top : {"invalid", "null"}, success : {Missing},
          error : {JErrScalar(Missing)}, underscore : {Missing},
          goodbye : {Missing}]

\* status codes of responses, around the bounds of [200, 400)
ClientCodes == {199, 200, 399, 400, 401, 500}

\* a response body is read in blocks, the JSON value lying in the first
BodyTexts == {<<"block1">>, <<"block1", "block2">>}
ResponseHeaders == {EmptyHeader, HeaderSet(EmptyHeader, ContentType, "text/plain")}
Responses ==
    [StatusCode : ClientCodes, Header : ResponseHeaders, doc : Docs,
     text : BodyTexts]
    \cup [StatusCode : ClientCodes, Header : ResponseHeaders,
          doc : {EmptyDoc}, text : {<<>>}]

\* Err.Message: a format and its arguments
Message(fmt, status, text) == [fmt |-> fmt, status |-> status, text |-> text]
Literal(s) == Message("%s", 0, <<s>>)

\* error values Get, Post and Put return
ErrorValue(type, success, code, message, statusCode) ==
    [type |-> type, Success |-> success, Code |-> code, Message |-> message,
     StatusCode |-> statusCode]
NoError == ErrorValue("nil", FALSE, 0, Literal(""), 0)
TransportError == ErrorValue("transport", FALSE, 0, Literal(""), 0)
MarshalError == ErrorValue("marshal", FALSE, 0, Literal(""), 0)

\* models.ErrBadURL
ErrBadURL == ErrorValue("errorString", FALSE, 0, Literal("bad url"), 0)

\* fmt.Errorf("%w url: %s, err: %v", models.ErrBadURL, ul, err) of Get
GetBadURLError(u) ==
    ErrorValue("wrapError", FALSE, 0, Message("%w url: %s, err: %v", 0, u), 0)

\* fmt.Errorf("invalid url, url: %s, err: %v", ul, err) of Post and Put
PostBadURLError(u) ==
    ErrorValue("errorString", FALSE, 0,
               Message("invalid url, url: %s, err: %v", 0, u), 0)

\* errors.Unwrap(e): the error a %w verb wrapped, nil for any other error
Unwrap(e) == IF e.type = "wrapError" THEN ErrBadURL ELSE NoError

\* models.HttpClientErrorResponse
HttpClientErrorResponse(success, code, message, statusCode) ==
    ErrorValue("HttpClientErrorResponse", success, code, message, statusCode)

\* a ResponseData that leaves the headers out
ResponseDataWithoutHeader(r) ==
    [present |-> TRUE, Status |-> <<r.StatusCode, "reason">>,
     StatusCode |-> r.StatusCode, Header |-> EmptyHeader]

\* models.ResponseData, and the nil *models.ResponseData
ResponseData(r) ==
    [present |-> TRUE, Status |-> <<r.StatusCode, "reason">>,
     StatusCode |-> r.StatusCode, Header |-> r.Header]
NoData ==
    [present |-> FALSE, Status |-> <<0, "">>, StatusCode |-> 0,
     Header |-> EmptyHeader]

\* the http.Response of a call that has none
NoResponse ==
    [StatusCode |-> 0, Header |-> EmptyHeader,
     doc |-> [top |-> "invalid", success |-> Missing,
              error |-> JErrScalar(Missing), underscore |-> Missing,
              goodbye |-> Missing],
     text |-> <<>>]

\* a member value the decoder leaves the field alone for
Skipped(x) == x.t \in {"missing", "null"}

\* json.NewDecoder(res.Body).Decode(&errRes) for models.HttpClientErrorResponse
\* {Success `json:"success"`, Err {Code `json:"code"`, Message
\* `json:"message"`} `json:"error"`, StatusCode `json:"_"`}: every member of
\* the right type is stored, a member of a wrong type is reported at the end
DecodeErrorResponse(doc, e) ==
    IF doc.top = "invalid" THEN [val |-> e, err |-> "syntax"]
    ELSE IF doc.top = "null" THEN [val |-> e, err |-> "nil"]
    ELSE
    LET isObj == doc.error.t = "object"
        okSuccess == Skipped(doc.success) \/ doc.success.t = "bool"
        okError == Skipped(doc.error) \/ isObj
        okCode == ~isObj \/ Skipped(doc.error.code)
                  \/ doc.error.code.t = "number"
        okMessage == ~isObj \/ Skipped(doc.error.message)
                     \/ doc.error.message.t = "string"
        okStatus == Skipped(doc.underscore) \/ doc.underscore.t = "number"
        val == HttpClientErrorResponse(
                 IF doc.success.t = "bool" THEN doc.success.n = 1
                 ELSE e.Success,
                 IF isObj /\ doc.error.code.t = "number"
                 THEN doc.error.code.n ELSE e.Code,
                 IF isObj /\ doc.error.message.t = "string"
                 THEN Literal(doc.error.message.s) ELSE e.Message,
                 IF doc.underscore.t = "number"
                 THEN doc.underscore.n ELSE e.StatusCode)
    IN  [val |-> val,
         err |-> IF okSuccess /\ okError /\ okCode /\ okMessage /\ okStatus
                 THEN "nil" ELSE "type"]

\* the caller's destination, a struct {Goodbye string}, before the call
ZeroOut == [Goodbye |-> ""]

\* a decoder that reports no error
DecodeOutNeverFails(doc, o) ==
    [val |-> IF doc.top = "object" /\ doc.goodbye.t = "string"
             THEN [Goodbye |-> doc.goodbye.s] ELSE o,
     err |-> "nil"]

\* json.NewDecoder(res.Body).Decode(&v) for that destination
DecodeOut(doc, o) ==
    IF doc.top = "invalid" THEN [val |-> o, err |-> "syntax"]
    ELSE IF doc.top = "null" THEN [val |-> o, err |-> "nil"]
    ELSE [val |-> IF doc.goodbye.t = "string"
                  THEN [Goodbye |-> doc.goodbye.s] ELSE o,
          err |-> IF Skipped(doc.goodbye) \/ doc.goodbye.t = "string"
                  THEN "nil" ELSE "type"]

\* http.StatusOK, http.StatusBadRequest, http.StatusInternalServerError
StatusOK == 200
StatusBadRequest == 400
StatusInternalServerError == 500

\* client.sendRequest once HTTPClient.Do returned the response r; `read` is
\* the number of blocks of the body the decoder's reads took
SendRequest(r, o, read) ==
    IF r.StatusCode < StatusOK \/ r.StatusCode >= StatusBadRequest
    THEN LET d == DecodeErrorResponse(
                      r.doc,
                      HttpClientErrorResponse(FALSE, 0, Literal(""),
                                              r.StatusCode))
             body == SubSeq(r.text, read + 1, Len(r.text))
         IN  IF d.err = "nil"
             THEN [data |-> ResponseData(r), err |-> d.val, out |-> o]
             ELSE [data |-> ResponseData(r),
                   err |-> HttpClientErrorResponse(
                             d.val.Success, 0,
                             Message("unknown error, status code: %d, response: %s",
                                     r.StatusCode, body),
                             d.val.StatusCode),
                   out |-> o]
    ELSE LET d == DecodeOut(r.doc, o)
         IN  IF d.err # "nil"
             THEN [data |-> ResponseData(r),
                   err |-> HttpClientErrorResponse(FALSE, 0,
                                                   Literal(d.err),
                                                   StatusInternalServerError),
                   out |-> d.val]
             ELSE [data |-> ResponseData(r), err |-> NoError, out |-> d.val]

\* contexts callers pass to Get, Post and Put
CallContexts == UNION {[1..n -> Bindings] : n \in 0..MaxCallDepth}

\* base URLs and timeouts clients are constructed with: a base with scheme
\* and host, and a base without a host
GoodBase == <<"h", ":", "/", "/", "h">>
BadBase == <<"h", ":">>
Constructions ==
    {[url |-> GoodBase, timeout |-> 10], [url |-> BadBase, timeout |-> 0]}

\* paths callers pass to Get, Post and Put
Paths == {<<>>, <<"/", "h">>}

\* a RequestOptions value, and that no GetConfig has returned one
RequestOptions(u, t) == [present |-> TRUE, URL |-> u, Timeout |-> t]
NoConfig == [present |-> FALSE, URL |-> <<>>, Timeout |-> 0]

\* no call is in progress and nothing a call returned is held
ClientAtRest ==
    /\ defaultHeaders = NoHeaders
    /\ cpc = "idle"
    /\ reqMethod = "none"
    /\ reqCtx = <<>>
    /\ callHeaders = NoHeaders
    /\ reqHeader = EmptyHeader
    /\ resp = NoResponse
    /\ retData = NoData
    /\ retErr = NoError
    /\ out = ZeroOut
    /\ reqURL = <<>>
    /\ sent = FALSE
    /\ config = NoConfig

\* the state of the client while another part is exercised
ClientIdle ==
    /\ BaseURL = <<>>
    /\ Timeout = 0
    /\ ClientAtRest

\* NewClient / NewClientWithRetry: the base URL and the timeout are stored,
\* there are no default headers and no call is in progress
ClientInit ==
    /\ \E c \in Constructions :
        /\ BaseURL = c.url
        /\ Timeout = c.timeout
    /\ ClientAtRest

\* c.defaultHeaders = headers
SetDefaultHeaders ==
    /\ cpc = "idle"
    /\ \E h \in HeaderMaps : defaultHeaders' = h
    /\ UNCHANGED <<cpc, reqMethod, reqCtx, callHeaders, reqHeader, resp,
                   retData, retErr, out, BaseURL, Timeout, reqURL, sent,
                   config>>
    /\ UNCHANGED nonClientVars

\* a GetConfig that reports the timeout of a zero http.Client
GetConfigZeroTimeout ==
    /\ cpc = "idle"
    /\ cpc' = "config"
    /\ config' = RequestOptions(BaseURL, 0)
    /\ UNCHANGED <<defaultHeaders, reqMethod, reqCtx, callHeaders, reqHeader,
                   resp, retData, retErr, out, BaseURL, Timeout, reqURL, sent>>
    /\ UNCHANGED nonClientVars

\* GetConfig returns RequestOptions{URL: c.BaseURL, Timeout:
\* c.HTTPClient.Timeout}
GetConfig ==
    /\ cpc = "idle"
    /\ cpc' = "config"
    /\ config' = RequestOptions(BaseURL, Timeout)
    /\ UNCHANGED <<defaultHeaders, reqMethod, reqCtx, callHeaders, reqHeader,
                   resp, retData, retErr, out, BaseURL, Timeout, reqURL, sent>>
    /\ UNCHANGED nonClientVars

\* the error of the URL check: Get wraps models.ErrBadURL, Post and Put
\* format a message of their own
BadURLError(m, u) ==
    IF m = "GET" THEN GetBadURLError(u) ELSE PostBadURLError(u)

\* a URL check that is made once the request was sent
BadURLSent(m) ==
    /\ cpc = "idle"
    /\ \E path \in Paths :
        LET u == generateUrl(BaseURL, path)
        IN  /\ ~ValidURL(u)
            /\ reqURL' = u
            /\ retErr' = BadURLError(m, u)
    /\ reqMethod' = m
    /\ cpc' = "returned"
    /\ retData' = NoData
    /\ sent' = TRUE
    /\ UNCHANGED <<defaultHeaders, reqCtx, callHeaders, reqHeader, resp, out,
                   BaseURL, Timeout, config>>
    /\ UNCHANGED nonClientVars

\* Get, Post and Put return at the URL check: nil and an error
BadURL(m) ==
    /\ cpc = "idle"
    /\ \E path \in Paths :
        LET u == generateUrl(BaseURL, path)
        IN  /\ ~ValidURL(u)
            /\ reqURL' = u
            /\ retErr' = BadURLError(m, u)
    /\ reqMethod' = m
    /\ cpc' = "returned"
    /\ retData' = NoData
    /\ UNCHANGED <<defaultHeaders, reqCtx, callHeaders, reqHeader, resp, out,
                   BaseURL, Timeout, sent, config>>
    /\ UNCHANGED nonClientVars

\* Get, Post and Put up to the call of sendRequest: the URL passes the
\* check, the request is built and its header assembled
BuildRequest(m) ==
    /\ cpc = "idle"
    /\ \E path \in Paths :
        /\ ValidURL(generateUrl(BaseURL, path))
        /\ reqURL' = generateUrl(BaseURL, path)
    /\ \E c \in CallContexts, h \in HeaderMaps :
        \E p1 \in Picks(FetchHeadersFromContext(c)),
           p2 \in Picks(defaultHeaders), p3 \in Picks(h) :
            /\ reqCtx' = c
            /\ callHeaders' = h
            /\ reqHeader' = RequestHeader(c, defaultHeaders, h, p1, p2, p3)
    /\ reqMethod' = m
    /\ cpc' = "built"
    /\ UNCHANGED <<defaultHeaders, resp, retData, retErr, out, BaseURL,
                   Timeout, sent, config>>
    /\ UNCHANGED nonClientVars

\* json.Marshal(v) fails once the URL passed the check: Post and Put return
\* nil and its error
MarshalFails(m) ==
    /\ cpc = "idle"
    /\ \E path \in Paths :
        /\ ValidURL(generateUrl(BaseURL, path))
        /\ reqURL' = generateUrl(BaseURL, path)
    /\ reqMethod' = m
    /\ cpc' = "returned"
    /\ retData' = NoData
    /\ retErr' = MarshalError
    /\ UNCHANGED <<defaultHeaders, reqCtx, callHeaders, reqHeader, resp, out,
                   BaseURL, Timeout, sent, config>>
    /\ UNCHANGED nonClientVars

Get == BuildRequest("GET") \/ BadURL("GET")

Post ==
    \/ BuildRequest("POST")
    \/ BadURL("POST")
    \/ MarshalFails("POST")

Put ==
    \/ BuildRequest("PUT")
    \/ BadURL("PUT")
    \/ MarshalFails("PUT")

\* sendRequest calls c.HTTPClient.Do(req): the request is with the transport
Do ==
    /\ cpc = "built"
    /\ cpc' = "inflight"
    /\ sent' = TRUE
    /\ reqCtx' = <<>>
    /\ callHeaders' = NoHeaders
    /\ reqHeader' = EmptyHeader
    /\ reqURL' = <<>>
    /\ UNCHANGED <<defaultHeaders, reqMethod, resp, retData, retErr, out,
                   BaseURL, Timeout, config>>
    /\ UNCHANGED nonClientVars

\* a failed call that hands a ResponseData back
DoFailsWithData ==
    /\ cpc = "inflight"
    /\ cpc' = "returned"
    /\ resp' = NoResponse
    /\ retData' = ResponseData(NoResponse)
    /\ retErr' = TransportError
    /\ UNCHANGED <<defaultHeaders, reqMethod, reqCtx, callHeaders, reqHeader,
                   out, BaseURL, Timeout, reqURL, sent, config>>
    /\ UNCHANGED nonClientVars

\* HTTPClient.Do returns an error: sendRequest returns nil and that error
DoFails ==
    /\ cpc = "inflight"
    /\ cpc' = "returned"
    /\ resp' = NoResponse
    /\ retData' = NoData
    /\ retErr' = TransportError
    /\ UNCHANGED <<defaultHeaders, reqMethod, reqCtx, callHeaders, reqHeader,
                   out, BaseURL, Timeout, reqURL, sent, config>>
    /\ UNCHANGED nonClientVars

\* HTTPClient.Do returns a response: sendRequest classifies it; the decoder
\* reads at least one block of a body that has one
DoReturns ==
    /\ cpc = "inflight"
    /\ \E r \in Responses, read \in 0..MaxRead :
        /\ read <= Len(r.text)
        /\ read = 0 => r.text = <<>>
        /\ LET x == SendRequest(r, out, read)
           IN  /\ resp' = r
               /\ retData' = x.data
               /\ retErr' = x.err
               /\ out' = x.out
    /\ cpc' = "returned"
    /\ UNCHANGED <<defaultHeaders, reqMethod, reqCtx, callHeaders, reqHeader,
                   BaseURL, Timeout, reqURL, sent, config>>
    /\ UNCHANGED nonClientVars

\* the caller is done with what the call returned
Release ==
    /\ cpc \in {"returned", "config"}
    /\ cpc' = "idle"
    /\ reqMethod' = "none"
    /\ resp' = NoResponse
    /\ retData' = NoData
    /\ retErr' = NoError
    /\ out' = ZeroOut
    /\ reqURL' = <<>>
    /\ sent' = FALSE
    /\ config' = NoConfig
    /\ UNCHANGED <<defaultHeaders, reqCtx, callHeaders, reqHeader, BaseURL,
                   Timeout>>
    /\ UNCHANGED nonClientVars

(***************************************************************************)
(* loggingRoundTripper.RoundTrip over any inner http.RoundTripper.         *)
(***************************************************************************)
\* what an inner RoundTripper can return: a response, an error, or both
InnerResponses ==
    {NoResp} \cup {Resp(s, n) : s \in ClientCodes, n \in 1..MaxAttempts}
InnerOutcomes ==
    {o \in InnerResponses \X {NilErr, NetErr, CtxErr} :
        o[1] # NoResp \/ o[2] # NilErr}

\* the state of the decorator while another part is exercised
LoggingIdle ==
    /\ lpc = "idle"
    /\ lmethod = "none"
    /\ innerRes = NoResp
    /\ innerErr = NilErr
    /\ sendRes = NoResp
    /\ sendErr = NilErr
    /\ records = <<>>

\* RoundTrip is called with a request
LoggingInit ==
    /\ lpc = "called"
    /\ lmethod \in Methods
    /\ innerRes = NoResp
    /\ innerErr = NilErr
    /\ sendRes = NoResp
    /\ sendErr = NilErr
    /\ records = <<>>

\* lines 250-257: the start record is logged, l.next.RoundTrip(r) is called
LoggingStart ==
    /\ lpc = "called"
    /\ lpc' = "inner"
    /\ records' = Append(records, LogStart)
    /\ UNCHANGED <<lmethod, innerRes, innerErr, sendRes, sendErr>>
    /\ UNCHANGED nonLoggingVars

\* lines 257-277: l.next.RoundTrip(r) returns, the end record is logged and
\* RoundTrip returns
LoggingEnd ==
    /\ lpc = "inner"
    /\ \E o \in InnerOutcomes :
        LET ret == LoggingReturn(o[1], o[2])
        IN  /\ innerRes' = o[1]
            /\ innerErr' = o[2]
            /\ sendRes' = ret[1]
            /\ sendErr' = ret[2]
            /\ records' = Append(records, LogEnd(o[1], o[2]))
    /\ lpc' = "returned"
    /\ UNCHANGED lmethod
    /\ UNCHANGED nonLoggingVars

(***************************************************************************)
(* A call through a client of NewClientWithRetry: sendRequest has called   *)
(* c.HTTPClient.Do(req), whose transport is the retryRoundTripper.         *)
(***************************************************************************)
\* bodies the server of such a call answers with: no JSON, the object the
\* destination takes, an error payload
GoodbyeDoc ==
    [top |-> "object", success |-> Missing, error |-> JErrScalar(Missing),
     underscore |-> Missing, goodbye |-> JStr("World")]
ErrorDoc ==
    [top |-> "object", success |-> Missing,
     error |-> JErr(JNum(10), JStr("m")), underscore |-> Missing,
     goodbye |-> Missing]
CallDocs == {EmptyDoc, GoodbyeDoc, ErrorDoc}

\* the http.Response values that stand behind the transport's response of
\* status st
CallResponses(st) ==
    [StatusCode : {st}, Header : {EmptyHeader}, doc : CallDocs,
     text : {<<"block1">>}]

\* the client while c.HTTPClient.Do(req) runs the request of the retry loop
ClientInFlight ==
    /\ BaseURL = GoodBase
    /\ Timeout = 10
    /\ defaultHeaders = NoHeaders
    /\ cpc = "inflight"
    /\ reqMethod = method
    /\ reqCtx = <<>>
    /\ callHeaders = NoHeaders
    /\ reqHeader = EmptyHeader
    /\ resp = NoResponse
    /\ retData = NoData
    /\ retErr = NoError
    /\ out = ZeroOut
    /\ reqURL = <<>>
    /\ sent = TRUE
    /\ config = NoConfig

\* retryRoundTripper.RoundTrip has returned (res, err) to http.Client.Do.
\* On an error Do returns nil and the error, ignoring a response that came
\* with it, and sendRequest returns nil and that error; else sendRequest
\* classifies the response and its deferred res.Body.Close() runs.
CallReturns ==
    /\ pc \in Terminal
    /\ cpc = "inflight"
    /\ IF err # NilErr
       THEN /\ resp' = NoResponse
            /\ retData' = NoData
            /\ retErr' = TransportError
            /\ UNCHANGED <<out, openBodies>>
       ELSE /\ \E r \in CallResponses(res.status) :
                LET x == SendRequest(r, out, 1)
                IN  /\ resp' = r
                    /\ retData' = x.data
                    /\ retErr' = x.err
                    /\ out' = x.out
            /\ openBodies' = openBodies \ {res.n}
    /\ cpc' = "returned"
    /\ UNCHANGED <<maxRetries, delay, validator, method, postBody, bodyOff,
                   ctxDone, pc, attempts, res, err, timer, chosen,
                   dispatchDone, log, bodySeen, waits, validatorCalls>>
    /\ UNCHANGED <<defaultHeaders, reqMethod, reqCtx, callHeaders, reqHeader,
                   BaseURL, Timeout, reqURL, sent, config>>
    /\ UNCHANGED <<bridgeVars, loggingVars, urlVars>>

Init == RetryInit /\ BridgeIdle /\ ClientIdle /\ LoggingIdle /\ UrlIdle

Next ==
    \/ Dispatch
    \/ AttemptReturns
    \/ Tick
    \/ TimerFires
    \/ Cancel
    \/ SelectDone
    \/ SelectTimer

Spec == Init /\ [][Next]_vars

\* the loop on a scheduler that runs what can run: the transport returns,
\* time passes, timers fire and the goroutine of RoundTrip goes on; nothing
\* makes the caller cancel
SpecLive ==
    /\ Init
    /\ [][Next]_vars
    /\ WF_vars(Dispatch)
    /\ WF_vars(AttemptReturns)
    /\ WF_vars(Tick)
    /\ WF_vars(TimerFires)
    /\ WF_vars(SelectDone)
    /\ WF_vars(SelectTimer)

InitCall ==
    RetryInit /\ BridgeIdle /\ ClientInFlight /\ LoggingIdle /\ UrlIdle

NextCall ==
    \/ Dispatch
    \/ AttemptReturns
    \/ Tick
    \/ TimerFires
    \/ Cancel
    \/ SelectDone
    \/ SelectTimer
    \/ CallReturns

SpecCall == InitCall /\ [][NextCall]_vars

InitBridge ==
    RetryIdle /\ BridgeInit /\ ClientIdle /\ LoggingIdle /\ UrlIdle

NextBridge ==
    \/ FetchContext
    \/ FetchHeaders

SpecBridge == InitBridge /\ [][NextBridge]_vars

InitClient ==
    RetryIdle /\ BridgeIdle /\ ClientInit /\ LoggingIdle /\ UrlIdle

NextClient ==
    \/ SetDefaultHeaders
    \/ Get
    \/ Post
    \/ Put
    \/ GetConfig
    \/ Do
    \/ DoFails
    \/ DoReturns
    \/ Release

SpecClient == InitClient /\ [][NextClient]_vars

InitUrl ==
    RetryIdle /\ BridgeIdle /\ ClientIdle /\ LoggingIdle /\ UrlInit

NextUrl == GenerateUrl

SpecUrl == InitUrl /\ [][NextUrl]_vars

InitLogging ==
    RetryIdle /\ BridgeIdle /\ ClientIdle /\ LoggingInit /\ UrlIdle

NextLogging ==
    \/ LoggingStart
    \/ LoggingEnd

SpecLogging == InitLogging /\ [][NextLogging]_vars

TypeOK ==
    /\ pc \in {"top", "inflight", "select"} \cup Terminal
    /\ attempts \in 0..MaxAttempts
    /\ err \in {NilErr, NetErr, CtxErr}

(***************************************************************************)
(* Properties of the retry loop.                                           *)
(***************************************************************************)
\* the outcomes of the attempts made so far, as the logger recorded them
Ends == SelectSeq(log, LAMBDA x : x.msg = "Call Ended")

\* the outcome is a response the validator accepts
OkEnd(x) == x.error = NilErr /\ x.status \in validator

\* attempt i is the first one with an accepted response
FirstAccepted(i) ==
    /\ i \in 1..Len(Ends)
    /\ OkEnd(Ends[i])
    /\ \A j \in 1..(i - 1) : ~OkEnd(Ends[j])

\* C1: with maxRetries = N >= 1 and a context that is never cancelled, k < N
\* unsatisfactory outcomes followed by an accepted response make exactly k+1
\* attempts and k waits, and RoundTrip returns that response with a nil
\* error; it does not return before the accepted response or the bound.
C1_FailsThenAccepted ==
    (maxRetries >= 1 /\ ~ctxDone) =>
        /\ \A i \in 1..Len(Ends) :
              FirstAccepted(i) =>
                  /\ pc \in {"Accepted", "Exhausted"}
                  /\ Len(Ends) = i
                  /\ Len(bodySeen) = i
                  /\ attempts = i
                  /\ waits = i - 1
                  /\ res = Resp(Ends[i].status, i)
                  /\ err = NilErr
        /\ (pc \in Terminal /\ \A i \in 1..Len(Ends) : ~OkEnd(Ends[i])) =>
              attempts = maxRetries

\* C1 witness: N = 3, a transport error, a rejected 500, then an accepted 200
C1_Witness ==
    /\ maxRetries = 3
    /\ ~ctxDone
    /\ validator = {200}
    /\ pc \in Terminal
    /\ Len(Ends) = 3
    /\ Ends[1].error = NetErr
    /\ Ends[2].status = 500
    /\ Ends[3].status = 200
    /\ attempts = 3
    /\ waits = 2
    /\ res = Resp(200, 3)

\* the number of attempts among the first n that returned no error
NoErrCount(n) == Cardinality({i \in 1..n : Ends[i].error = NilErr})

\* C2: with maxRetries >= 1 the transport is never entered more than
\* maxRetries times, and the outcome of attempt number maxRetries is returned
\* as it is, without a call of the validator and without a wait for it.
C2_BoundedAttempts ==
    maxRetries >= 1 =>
        /\ Len(bodySeen) <= maxRetries
        /\ attempts <= maxRetries
        /\ attempts = maxRetries =>
              /\ pc = "Exhausted"
              /\ Len(Ends) = maxRetries
              /\ err = Ends[maxRetries].error
              /\ res = (IF err # NilErr THEN NoResp
                        ELSE Resp(Ends[maxRetries].status, maxRetries))
              /\ validatorCalls = NoErrCount(maxRetries - 1)
              /\ waits = maxRetries - 1
              /\ chosen = "none"

\* C2 witness: maxRetries = 1, one attempt whose 500 the validator would
\* have rejected is returned, no validator call and no wait
C2_Witness ==
    /\ maxRetries = 1
    /\ pc = "Exhausted"
    /\ attempts = 1
    /\ validator = {200}
    /\ res = Resp(500, 1)
    /\ validatorCalls = 0
    /\ waits = 0

\* C3: a context that is cancelled while the select is blocked wakes it on
\* the Done case at once; the Done case returns the context's error with no
\* further tick of the timer and no further attempt, and nothing follows it.
C3_CancelledInWait ==
    [][ /\ (pc = "select" /\ chosen = "none" /\ ~ctxDone /\ ctxDone') =>
              (pc' = "select" /\ chosen' = "done" /\ timer' = timer)
        /\ (pc = "select" /\ chosen = "done") =>
              /\ pc' = "Cancelled"
              /\ err' = CtxErr
              /\ timer' = timer
              /\ UNCHANGED <<attempts, log, bodySeen, waits, res>>
        /\ pc = "Cancelled" => FALSE
      ]_vars

\* C3 witness: RoundTrip returned from the Done case in the middle of a delay
C3_Witness ==
    /\ pc = "Cancelled"
    /\ err = CtxErr
    /\ ctxDone
    /\ 0 < timer
    /\ timer < delay
    /\ Len(bodySeen) = attempts

\* C21: the log is a sequence of pairs, a start record then an end record,
\* one pair per attempt that returned; an attempt is in flight exactly when
\* the last record is a start record, so the pair of one attempt is complete
\* before the start record of the next.
C21_LogPairsSequential ==
    /\ \A i \in 1..Len(log) :
          log[i].msg = (IF i % 2 = 1 THEN "Initiating call" ELSE "Call Ended")
    /\ Len(Ends) = attempts
    /\ Len(bodySeen) = (Len(log) + 1) \div 2
    /\ Len(log) = IF pc = "inflight" THEN 2 * attempts + 1 ELSE 2 * attempts

\* C21 witness: the third attempt is in flight after two complete pairs
C21_Witness ==
    /\ pc = "inflight"
    /\ attempts = 2
    /\ Len(log) = 5
    /\ log[4].msg = "Call Ended"
    /\ log[5] = LogStart

\* C22: a wait that begins with the context already cancelled commits to the
\* Done case, as does a wait in which the context becomes cancelled, and the
\* Done case returns with no further attempt.
C22_NoAttemptOnceCancelled ==
    [][ /\ (pc = "inflight" /\ pc' = "select" /\ ctxDone) => chosen' = "done"
        /\ (pc = "select" /\ chosen = "none" /\ ctxDone') => chosen' = "done"
        /\ (pc = "select" /\ chosen = "done") =>
              (pc' = "Cancelled" /\ attempts' = attempts /\ log' = log)
      ]_vars

\* the outcome of the last attempt, as loggingRoundTripper returned it
LastOutcome ==
    LET x == Ends[Len(Ends)]
    IN  IF x.error # NilErr THEN <<NoResp, x.error>>
        ELSE <<Resp(x.status, Len(Ends)), NilErr>>

\* C23: RoundTrip returns the outcome of its last attempt from the bound and
\* from the validator, cancelled context or not; it returns the context's
\* error only from a select that followed an attempt that was neither
\* accepted nor the maxRetries-th.
C23_CancelOnlyInWait ==
    /\ pc \in {"Accepted", "Exhausted"} => <<res, err>> = LastOutcome
    /\ pc = "Cancelled" =>
          /\ err = CtxErr
          /\ ~OkEnd(Ends[Len(Ends)])
          /\ attempts # maxRetries
          /\ waits = attempts - 1

\* C23 witness: the context was cancelled while the first attempt was in
\* flight, the attempt's 200 was accepted and returned with a nil error
C23_Witness ==
    /\ pc = "Accepted"
    /\ ctxDone
    /\ ~dispatchDone
    /\ attempts = 1
    /\ res = Resp(200, 1)
    /\ err = NilErr

\* the attempts before the bound that returned no error
ValidatorSeen ==
    {i \in 1..Len(Ends) : Ends[i].error = NilErr /\ i # maxRetries}

\* C24: RoundTrip returns from an attempt before the bound only with a
\* response the validator accepted; every attempt before it was
\* unsatisfactory and was followed by a wait; the validator is called for
\* the responses before the bound and for no error.
C24_ValidatorDecides ==
    /\ (pc \in {"Accepted", "Exhausted"} /\ attempts # maxRetries) =>
          (pc = "Accepted" /\ OkEnd(Ends[attempts]) /\ err = NilErr)
    /\ \A i \in 1..(attempts - 1) : ~OkEnd(Ends[i])
    /\ pc \in {"select", "Cancelled"} => ~OkEnd(Ends[attempts])
    /\ waits = (IF pc \in {"top", "inflight"} \/ attempts = 0
                THEN attempts ELSE attempts - 1)
    /\ validatorCalls = Cardinality(ValidatorSeen)

\* C24 witness: a network error and a rejected 500, each followed by a wait,
\* then an accepted 200 before the bound; the validator saw two responses
C24_Witness ==
    /\ maxRetries = -1
    /\ validator = {200}
    /\ pc = "Accepted"
    /\ attempts = 3
    /\ Ends[1].error = NetErr
    /\ Ends[2].status = 500
    /\ Ends[3].status = 200
    /\ waits = 2
    /\ validatorCalls = 2

(***************************************************************************)
(* Properties of the header propagation bridge.                            *)
(***************************************************************************)
\* the seven well-known header names
WellKnown ==
    {UserID, TenantID, RequestID, MerchantAPIKey, APIContextKey,
     AuthorizationKey, XForwardedFor}

\* FetchContextFromHeaders was applied to the starting context
Injected == ops # <<>> /\ ops[1] = "FetchContextFromHeaders"

\* FetchHeadersFromContext was applied to the current context
Extracted == ops # <<>> /\ ops[Len(ops)] = "FetchHeadersFromContext"

\* FetchHeadersFromContext(FetchContextFromHeaders(ctxIn, r)) was computed
RoundTripDone == Injected /\ Extracted

\* the inbound request has no header line of that name
Absent(K) == CanonicalHeaderKey(K) \notin DOMAIN inHeader

\* C7 as claimed: after the round trip every well-known key whose inbound
\* header value V is not empty maps to V under its own name, and a well-known
\* key absent from the inbound headers is not in the mapping, for any
\* starting context.
C7_RoundTripAnyContext ==
    RoundTripDone =>
        \A K \in WellKnown :
            /\ HeaderGet(inHeader, K) # "" =>
                  (K \in DOMAIN ctxHeaders /\ ctxHeaders[K] = HeaderGet(inHeader, K))
            /\ Absent(K) => K \notin DOMAIN ctxHeaders

\* C7 amended: after the round trip every well-known key whose inbound
\* header value V is not empty maps to V under its own name, and a well-known
\* key absent from the inbound headers is in the mapping only if the starting
\* context already bound it to a string.
C7_RoundTrip ==
    RoundTripDone =>
        \A K \in WellKnown :
            /\ HeaderGet(inHeader, K) # "" =>
                  (K \in DOMAIN ctxHeaders /\ ctxHeaders[K] = HeaderGet(inHeader, K))
            /\ (Absent(K) /\ Value(ctxIn, CtxKey(K)).kind # "string") =>
                  K \notin DOMAIN ctxHeaders

\* C7 witness: user-id arrives as "a" over a starting context that bound it
\* to "v", X-Forwarded-For does not arrive; the mapping is user-id -> "a"
C7_Witness ==
    /\ RoundTripDone
    /\ Value(ctxIn, CtxKey(UserID)) = StrVal("v")
    /\ HeaderGet(inHeader, UserID) = "a"
    /\ Absent(XForwardedFor)
    /\ DOMAIN ctxHeaders = {UserID}
    /\ ctxHeaders[UserID] = "a"

\* the keys a context of the model may bind
AllKeys == BindingKeys \cup {CtxKey(K) : K \in WellKnown}

\* C8: the mapping FetchHeadersFromContext returns has only well-known keys
\* and holds every well-known key whose context value is a non-empty string,
\* values that are no strings being skipped; FetchContextFromHeaders adds
\* bindings for well-known keys only, binds every well-known key whose
\* inbound header is not empty, and every other key reads as it did before.
C8_OnlyWellKnownKeys ==
    /\ Extracted =>
          /\ DOMAIN ctxHeaders \subseteq WellKnown
          /\ \A K \in WellKnown :
                LET v == Value(ctx, CtxKey(K))
                IN  /\ (v.kind = "string" /\ v.s # "") =>
                          (K \in DOMAIN ctxHeaders /\ ctxHeaders[K] = v.s)
                    /\ v.kind # "string" => K \notin DOMAIN ctxHeaders
    /\ Injected =>
          /\ Len(ctx) >= Len(ctxIn)
          /\ SubSeq(ctx, 1, Len(ctxIn)) = ctxIn
          /\ \A i \in (Len(ctxIn) + 1)..Len(ctx) :
                ctx[i].key \in {CtxKey(K) : K \in WellKnown}
          /\ \A K \in WellKnown :
                HeaderGet(inHeader, K) # "" =>
                    Value(ctx, CtxKey(K)) = StrVal(HeaderGet(inHeader, K))
          /\ \A k \in AllKeys :
                ~(\E K \in WellKnown :
                      k = CtxKey(K) /\ HeaderGet(inHeader, K) # "") =>
                    Value(ctx, k) = Value(ctxIn, k)

\* C8 witness: a header outside the set and user-id arrive over a context
\* that binds a plain string key and a value that is no string
C8_Witness ==
    /\ RoundTripDone
    /\ CanonicalHeaderKey(Other) \in DOMAIN inHeader
    /\ HeaderGet(inHeader, UserID) = "a"
    /\ Value(ctxIn, StringKey(UserID)) = StrVal("v")
    /\ Value(ctxIn, CtxKey(XForwardedFor)) = IntVal
    /\ Value(ctx, StringKey(UserID)) = StrVal("v")
    /\ DOMAIN ctxHeaders = {UserID}

\* C9: an empty string is absent for both operations: no binding is added
\* for a well-known key whose inbound header value is empty, and the mapping
\* has no entry for a well-known key whose context value is the empty
\* string, so no value of the mapping is empty.
C9_EmptyIsAbsent ==
    /\ Injected =>
          \A K \in WellKnown :
              HeaderGet(inHeader, K) = "" =>
                  \A i \in (Len(ctxIn) + 1)..Len(ctx) : ctx[i].key # CtxKey(K)
    /\ Extracted =>
          /\ \A K \in WellKnown :
                Value(ctx, CtxKey(K)) = StrVal("") => K \notin DOMAIN ctxHeaders
          /\ \A K \in DOMAIN ctxHeaders : ctxHeaders[K] # ""

(***************************************************************************)
(* Properties of the client.                                               *)
(***************************************************************************)
\* the names the maps and requests of the model are written with, and the
\* canonical form of each
KnownNames == WellKnown \cup HeaderNames \cup {ContentType, Accept}
CanonOf == [k \in KnownNames |-> CanonicalHeaderKey(k)]

\* the values a map gives to the keys that stand for the canonical name c
LayerValues(m, c) == {m[k] : k \in {x \in DOMAIN m : CanonOf[x] = c}}

\* the content-type and accept defaults
FixedHeaders == (ContentType :> JSONUTF8) @@ (Accept :> JSONUTF8)

\* the values of the highest layer that defines c: the headers of the call,
\* else the default headers, else the headers of the context, else the
\* content-type and accept defaults
Winning(fromCtx, c) ==
    LET call == LayerValues(callHeaders, c)
        dflt == LayerValues(defaultHeaders, c)
        context == LayerValues(fromCtx, c)
    IN  IF call # {} THEN call
        ELSE IF dflt # {} THEN dflt
        ELSE IF context # {} THEN context
        ELSE LayerValues(FixedHeaders, c)

\* the canonical names a request of the model can carry
RequestNames == {CanonOf[k] : k \in KnownNames}

\* C5: the request Get, Post and Put build carries, for every header name,
\* one value, taken from the highest layer that defines the name in the
\* order defaults < context < default headers < headers of the call, and
\* carries no name that no layer defines.
C5_HeaderPrecedence ==
    cpc = "built" =>
        LET fromCtx == FetchHeadersFromContext(reqCtx)
        IN  /\ DOMAIN reqHeader \subseteq RequestNames
            /\ \A c \in RequestNames :
                  LET w == Winning(fromCtx, c)
                  IN  IF w = {} THEN c \notin DOMAIN reqHeader
                      ELSE /\ c \in DOMAIN reqHeader
                           /\ Len(reqHeader[c]) = 1
                           /\ reqHeader[c][1] \in w

\* C5 witness: the default header user-id: a, the per-call header User-Id: b
\* and a context value for user-id; the request carries User-Id: b
C5_Witness ==
    /\ cpc = "built"
    /\ UserID \in DOMAIN defaultHeaders
    /\ defaultHeaders[UserID] = "a"
    /\ DOMAIN callHeaders = {UserIDCanonical}
    /\ callHeaders[UserIDCanonical] = "b"
    /\ Value(reqCtx, CtxKey(UserID)) = StrVal("v")
    /\ reqHeader[UserIDCanonical] = <<"b">>

\* a default or per-call header has the name of K
Overridden(K) ==
    \E k \in DOMAIN defaultHeaders \cup DOMAIN callHeaders :
        CanonOf[k] = CanonOf[K]

\* C6: the request carries every well-known key that holds a string in the
\* context and is not overridden, with that string as its one value, and
\* carries no well-known key that is neither in the context nor a default
\* or per-call header.
C6_ContextHeadersSent ==
    cpc = "built" =>
        \A K \in WellKnown :
            LET v == Value(reqCtx, CtxKey(K))
                c == CanonOf[K]
            IN  /\ (v.kind = "string" /\ ~Overridden(K)) =>
                      (c \in DOMAIN reqHeader /\ reqHeader[c] = <<v.s>>)
                /\ (v.kind = "nil" /\ ~Overridden(K)) =>
                      c \notin DOMAIN reqHeader

\* C6 witness: the context holds "v" for X-Forwarded-For and nothing for
\* user-id, no header map names either; the request carries the one only
C6_Witness ==
    /\ cpc = "built"
    /\ Value(reqCtx, CtxKey(XForwardedFor)) = StrVal("v")
    /\ Value(reqCtx, CtxKey(UserID)) = NilVal
    /\ ~Overridden(XForwardedFor)
    /\ ~Overridden(UserID)
    /\ reqHeader[CanonicalHeaderKey(XForwardedFor)] = <<"v">>
    /\ UserIDCanonical \notin DOMAIN reqHeader

\* the body is a structured error payload: an object whose member error is
\* an object with a numeric code and a string message, and whose other
\* members the decoder accepts
StructuredError(doc) ==
    /\ doc.top = "object"
    /\ doc.error.t = "object"
    /\ doc.error.code.t = "number"
    /\ doc.error.message.t = "string"
    /\ doc.success.t \in {"missing", "null", "bool"}
    /\ doc.underscore.t \in {"missing", "null", "number"}

\* C10: a response with a status S outside [200, 400) and a structured error
\* payload as its body makes the call return an HttpClientErrorResponse with
\* the code and the message of the body and with StatusCode = S, whatever
\* else the body holds.
C10_StructuredErrorReturned ==
    (/\ cpc = "returned"
     /\ resp # NoResponse
     /\ (resp.StatusCode < 200 \/ resp.StatusCode >= 400)
     /\ StructuredError(resp.doc)) =>
        /\ retErr.type = "HttpClientErrorResponse"
        /\ retErr.Code = resp.doc.error.code.n
        /\ retErr.Message = Literal(resp.doc.error.message.s)
        /\ retErr.StatusCode = resp.StatusCode

\* the status code is outside [200, 400)
Failing(r) == r.StatusCode < 200 \/ r.StatusCode >= 400

\* a call has returned what sendRequest made of a response
Classified == cpc = "returned" /\ resp # NoResponse

\* the body does not decode as an error payload: it is no JSON value, or a
\* member has a type the error payload does not have there
NotErrorPayload(doc) ==
    \/ doc.top = "invalid"
    \/ /\ doc.top = "object"
       \/ doc.success.t \notin {"missing", "null", "bool"}
       \/ doc.error.t \notin {"missing", "null", "object"}
       \/ doc.underscore.t \notin {"missing", "null", "number"}
       \/ /\ doc.error.t = "object"
          /\ \/ doc.error.code.t \notin {"missing", "null", "number"}
             \/ doc.error.message.t \notin {"missing", "null", "string"}

\* C11: a response with a status S outside [200, 400) whose body does not
\* decode as an error payload makes the call return an
\* HttpClientErrorResponse whose message embeds S and the complete text of
\* the body.
C11_UnknownErrorEmbedsBody ==
    (Classified /\ Failing(resp) /\ NotErrorPayload(resp.doc)) =>
        /\ retErr.type = "HttpClientErrorResponse"
        /\ retErr.Message.status = resp.StatusCode
        /\ retErr.Message.text = resp.text

\* C12: a response with status 500 whose body has a string as member error
\* makes Post return an HttpClientErrorResponse whose Err.Message is the
\* text of the body.
C12_MessageIsBody ==
    (/\ Classified
     /\ reqMethod = "POST"
     /\ resp.StatusCode = 500
     /\ resp.doc.top = "object"
     /\ resp.doc.error.t = "string") =>
        /\ retErr.type = "HttpClientErrorResponse"
        /\ retErr.Message = Message("%s", 0, resp.text)

\* C13: a response with a status outside [200, 400) makes the call return
\* both a ResponseData with the status line, the status code and the headers
\* of that response, and an error.
C13_FailureHasDataAndError ==
    (Classified /\ Failing(resp)) =>
        /\ retData.present
        /\ retData.Status = <<resp.StatusCode, "reason">>
        /\ retData.StatusCode = resp.StatusCode
        /\ retData.Header = resp.Header
        /\ retErr # NoError
        /\ retErr.type # "nil"

\* C13 witness: a 401 with a header and an error payload came back
C13_Witness ==
    /\ Classified
    /\ resp.StatusCode = 401
    /\ resp.Header # EmptyHeader
    /\ StructuredError(resp.doc)
    /\ retData.Header = resp.Header
    /\ retErr.type = "HttpClientErrorResponse"

\* the body decodes into the destination struct {Goodbye string}
DecodesIntoOut(doc) ==
    \/ doc.top = "null"
    \/ doc.top = "object" /\ doc.goodbye.t \in {"missing", "null", "string"}

\* C14: a response with a status in [200, 400) makes the call return the
\* ResponseData and, if the body decodes into the destination, a nil error
\* with the decoded body in the destination; if it does not decode, an
\* HttpClientErrorResponse with status 500 and the message of the decoder.
C14_SuccessDecodes ==
    (Classified /\ ~Failing(resp)) =>
        /\ retData.present
        /\ retData.StatusCode = resp.StatusCode
        /\ retData.Header = resp.Header
        /\ IF DecodesIntoOut(resp.doc)
           THEN /\ retErr = NoError
                /\ (resp.doc.top = "object" /\ resp.doc.goodbye.t = "string")
                      => out.Goodbye = resp.doc.goodbye.s
           ELSE /\ retErr.type = "HttpClientErrorResponse"
                /\ retErr.StatusCode = 500
                /\ retErr.Success = FALSE
                /\ retErr.Message.fmt = "%s"
                /\ retErr.Message.text \in {<<"syntax">>, <<"type">>}

\* C14 witness: a 200 whose member Goodbye is a number came back, the call
\* returned the data and the internal error
C14_Witness ==
    /\ Classified
    /\ resp.StatusCode = 200
    /\ resp.doc.top = "object"
    /\ resp.doc.goodbye.t = "number"
    /\ retData.present
    /\ retErr.StatusCode = 500

\* C15: when HTTPClient.Do ends with an error and no response, the call
\* returns that error, no ResponseData, and leaves the destination alone.
C15_TransportErrorOnly ==
    [][(cpc = "inflight" /\ cpc' = "returned" /\ resp' = NoResponse) =>
          /\ retErr' = TransportError
          /\ ~retData'.present
          /\ out' = out]_vars

\* C15 witness: a Put that was sent returned the transport's error
C15_Witness ==
    /\ cpc = "returned"
    /\ reqMethod = "PUT"
    /\ sent
    /\ resp = NoResponse
    /\ retErr = TransportError
    /\ retData = NoData

\* a call starts
CallStarts == cpc = "idle" /\ cpc' \in {"built", "returned"}

\* C16: a call whose URL is not absolute with scheme and host returns an
\* error and no ResponseData without invoking the transport chain, the only
\* place attempts are made and records are logged.
C16_BadURLBeforeIO ==
    [][(CallStarts /\ ~ValidURL(reqURL')) =>
          /\ cpc' = "returned"
          /\ retErr'.type # "nil"
          /\ ~retData'.present
          /\ ~sent'
          /\ resp' = NoResponse]_vars

\* C16 witness: a Put on the base without a host returned at the URL check
C16_Witness ==
    /\ cpc = "returned"
    /\ reqMethod = "PUT"
    /\ BaseURL = BadBase
    /\ reqURL = <<"h", ":", "/", "h">>
    /\ ~ValidURL(reqURL)
    /\ ~sent
    /\ retErr.type # "nil"

\* C17: for Get, Post and Put alike the error of the URL check unwraps to
\* models.ErrBadURL.
C17_UnwrapsToErrBadURL ==
    (cpc = "returned" /\ ~sent /\ ~ValidURL(reqURL)) =>
        Unwrap(retErr) = ErrBadURL

\* s without a leading slash, and s without a trailing slash
TrimLeft(s) ==
    IF s # <<>> /\ s[1] = "/" THEN SubSeq(s, 2, Len(s)) ELSE s
TrimRight(s) ==
    IF s # <<>> /\ s[Len(s)] = "/" THEN SubSeq(s, 1, Len(s) - 1) ELSE s

C19_GetConfigPure ==
    [][/\ BaseURL' = BaseURL
       /\ Timeout' = Timeout
       /\ (cpc = "idle" /\ cpc' = "config") =>
             /\ config' = RequestOptions(BaseURL, Timeout)
             /\ UNCHANGED <<defaultHeaders, retryVars>>]_vars

\* C19 witness: after SetDefaultHeaders, GetConfig returned the base and the
\* timeout of the construction
C19_Witness ==
    /\ cpc = "config"
    /\ defaultHeaders # NoHeaders
    /\ config = RequestOptions(GoodBase, 10)

C25_PartialResultOnCancel ==
    (cpc = "returned" /\ pc = "Cancelled" /\ res # NoResp) =>
        /\ retErr.type # "nil"
        /\ retData.present
        /\ retData.StatusCode = res.status

\* with a positive maxRetries every RoundTrip reaches a terminal state
TerminatesWhenBounded == (maxRetries >= 1) => <>(pc \in Terminal)

\* with maxRetries <= 0 and a validator that accepts nothing RoundTrip has no
\* return but the Done case of the select
NoReturnWithoutBound ==
    (maxRetries <= 0 /\ validator = {}) => pc \notin {"Accepted", "Exhausted"}

C27_NoBodyLeftOpen == cpc = "returned" => openBodies = {}

\* C4: every attempt of a Post or Put finds the same readable body bytes in
\* the request as the first attempt did.
C4_SameBodyEveryAttempt ==
    method \in {"POST", "PUT"} =>
        \A i \in 1..Len(bodySeen) : bodySeen[i] = bodySeen[1]
====
